---- MODULE Spec2Model ----
(***************************************************************************)
(* Health-score functions of what2eat_healthScore.                         *)
(*                                                                         *)
(*   src/unnamed/part_000  the scoring engine behind an HTTP function that *)
(*                         takes the nutrition record in the request body  *)
(*   src/unnamed/part_001  the persisting variant: reads the product       *)
(*                         document, scores it and updates the document    *)
(*                                                                         *)
(* Text is a sequence of one-character strings.  A JavaScript number that  *)
(* parseFloat and the unit conversions produce is an exact fraction n/d,   *)
(* or NaN.  Threshold tables are written in tenths (4.5 is 45).            *)
(***************************************************************************)
EXTENDS Integers, Sequences, FiniteSets

VARIABLES
  rawValue,      \* parser run: the raw field value handed to parseNutritionValue
  nutrientType,  \* parser run: the nutrientType argument
  parsed,        \* parser run: the value returned
  parsePc,       \* parser run: "off" | "call" | "returned"
  req,           \* engine request: method and body (nutrition, isBeverage)
  locals,        \* engine request: isBeverageFlag, N and P of calculateHealthScore
  resp,          \* engine request: status and JSON body of the response
  enginePc,      \* engine request: "off" | "received" | "responded"
  doc,           \* store: the product document
  clock,         \* store: the server's timestamp source
  calls          \* store: the scoring requests in flight, by request number

vars == <<rawValue, nutrientType, parsed, parsePc, req, locals, resp, enginePc,
          doc, clock, calls>>

parseVars  == <<rawValue, nutrientType, parsed, parsePc>>
engineVars == <<req, locals, resp, enginePc>>
storeVars  == <<doc, clock, calls>>

-----------------------------------------------------------------------------
(* JavaScript values of a request body or a document field.                *)

Undefined == [t |-> "undefined", n |-> 0, s |-> <<>>]
Str(s)    == [t |-> "string",    n |-> 0, s |-> s]
Number(n) == [t |-> "number",    n |-> n, s |-> <<>>]
Bool(b)   == [t |-> "boolean",   n |-> IF b THEN 1 ELSE 0, s |-> <<>>]

\* ToBoolean: undefined, "", 0 and false are falsy, everything else is truthy
Truthy(v) ==
  CASE v.t = "undefined" -> FALSE
    [] v.t = "string"    -> v.s # <<>>
    [] v.t = "number"    -> v.n # 0
    [] v.t = "boolean"   -> v.n = 1

\* a || b
Or(a, b) == IF Truthy(a) THEN a ELSE b

DigitChars == {"0", "1", "2", "3", "4", "5", "6", "7", "8", "9"}
LowerChars == {"a", "b", "c", "d", "e", "f", "g", "h", "i", "j", "k", "l", "m",
               "n", "o", "p", "q", "r", "s", "t", "u", "v", "w", "x", "y", "z"}
UpperChars == {"A", "B", "C", "D", "E", "F", "G", "H", "I", "J", "K", "L", "M",
               "N", "O", "P", "Q", "R", "S", "T", "U", "V", "W", "X", "Y", "Z"}
\* the classes [0-9.] and [a-zA-Z%] of the pattern
NumberClass == DigitChars \cup {"."}
UnitClass   == LowerChars \cup UpperChars \cup {"%"}

DigitValue(c) ==
  CASE c = "0" -> 0 [] c = "1" -> 1 [] c = "2" -> 2 [] c = "3" -> 3 [] c = "4" -> 4
    [] c = "5" -> 5 [] c = "6" -> 6 [] c = "7" -> 7 [] c = "8" -> 8 [] c = "9" -> 9

DigitChar(k) ==
  CASE k = 0 -> "0" [] k = 1 -> "1" [] k = 2 -> "2" [] k = 3 -> "3" [] k = 4 -> "4"
    [] k = 5 -> "5" [] k = 6 -> "6" [] k = 7 -> "7" [] k = 8 -> "8" [] k = 9 -> "9"

LowerOf(c) ==
  CASE c = "A" -> "a" [] c = "B" -> "b" [] c = "C" -> "c" [] c = "D" -> "d"
    [] c = "E" -> "e" [] c = "F" -> "f" [] c = "G" -> "g" [] c = "H" -> "h"
    [] c = "I" -> "i" [] c = "J" -> "j" [] c = "K" -> "k" [] c = "L" -> "l"
    [] c = "M" -> "m" [] c = "N" -> "n" [] c = "O" -> "o" [] c = "P" -> "p"
    [] c = "Q" -> "q" [] c = "R" -> "r" [] c = "S" -> "s" [] c = "T" -> "t"
    [] c = "U" -> "u" [] c = "V" -> "v" [] c = "W" -> "w" [] c = "X" -> "x"
    [] c = "Y" -> "y" [] c = "Z" -> "z" [] OTHER -> c

toLowerCase(s) == [i \in 1..Len(s) |-> LowerOf(s[i])]

RECURSIVE NatDigits(_)
NatDigits(n) == IF n < 10 THEN <<DigitChar(n)>>
                ELSE NatDigits(n \div 10) \o <<DigitChar(n % 10)>>

\* value.toString() of a string, an integer number or a boolean
toString(v) ==
  CASE v.t = "string"  -> v.s
    [] v.t = "number"  -> IF v.n < 0 THEN <<"-">> \o NatDigits(-v.n) ELSE NatDigits(v.n)
    [] v.t = "boolean" -> IF v.n = 1 THEN <<"t", "r", "u", "e">>
                                     ELSE <<"f", "a", "l", "s", "e">>

RECURSIVE SkipSpaces(_, _)
SkipSpaces(s, i) == IF i <= Len(s) /\ s[i] = " " THEN SkipSpaces(s, i + 1) ELSE i

RECURSIVE SkipSpacesBack(_, _)
SkipSpacesBack(s, j) == IF j >= 1 /\ s[j] = " " THEN SkipSpacesBack(s, j - 1) ELSE j

trim(s) ==
  LET i == SkipSpaces(s, 1)
      j == SkipSpacesBack(s, Len(s))
  IN  IF i > j THEN <<>> ELSE SubSeq(s, i, j)

\* length of the longest run of characters of class C that starts at position i
RECURSIVE RunLen(_, _, _)
RunLen(s, i, C) == IF i <= Len(s) /\ s[i] \in C THEN 1 + RunLen(s, i + 1, C) ELSE 0

\* first position at or after i whose character is in class C, 0 when there is none
RECURSIVE FirstIn(_, _, _)
FirstIn(s, i, C) ==
  IF i > Len(s) THEN 0
  ELSE IF s[i] \in C THEN i ELSE FirstIn(s, i + 1, C)

\* strValue.match(/([0-9.]+)([a-zA-Z%]*)/): the leftmost longest run of [0-9.]
\* and the run of [a-zA-Z%] right after it; found = FALSE is the null result
match(s) ==
  LET i  == FirstIn(s, 1, NumberClass)
      nl == RunLen(s, i, NumberClass)
      ul == RunLen(s, i + nl, UnitClass)
  IN  IF i = 0 THEN [found |-> FALSE, num |-> <<>>, unit |-> <<>>]
      ELSE [found |-> TRUE,
            num   |-> SubSeq(s, i, i + nl - 1),
            unit  |-> SubSeq(s, i + nl, i + nl + ul - 1)]

-----------------------------------------------------------------------------
(* Numbers: the fraction n/d with d > 0, or NaN.                           *)

NaN       == [nan |-> TRUE,  n |-> 0, d |-> 1]
Frac(n, d) == [nan |-> FALSE, n |-> n, d |-> d]

RECURSIVE Pow10(_)
Pow10(k) == IF k = 0 THEN 1 ELSE 10 * Pow10(k - 1)

RECURSIVE DigitsValue(_)
DigitsValue(s) == IF s = <<>> THEN 0
                  ELSE 10 * DigitsValue(SubSeq(s, 1, Len(s) - 1)) + DigitValue(s[Len(s)])

\* parseFloat of a text over [0-9.]: the longest prefix digits [. digits] that
\* holds a digit; NaN when that prefix holds none ("." or "..5")
parseFloat(s) ==
  LET il  == RunLen(s, 1, DigitChars)
      dot == il + 1 <= Len(s) /\ s[il + 1] = "."
      fl  == IF dot THEN RunLen(s, il + 2, DigitChars) ELSE 0
  IN  IF il = 0 /\ fl = 0 THEN NaN
      ELSE Frac(DigitsValue(SubSeq(s, 1, il)) * Pow10(fl)
                  + DigitsValue(SubSeq(s, il + 2, il + 1 + fl)),
                Pow10(fl))

\* value / k and value * k for a positive integer k; NaN stays NaN
DivBy(v, k) == IF v.nan THEN NaN ELSE Frac(v.n, v.d * k)
MulBy(v, k) == IF v.nan THEN NaN ELSE Frac(v.n * k, v.d)

\* value / 4.184
DivBy4184Thousandths(v) == IF v.nan THEN NaN ELSE Frac(v.n * 1000, v.d * 4184)

\* value > t where t is given in tenths; any comparison with NaN is false
Exceeds(v, tenths) ==
  /\ ~v.nan
  /\ LET a == 10 * v.n
     IN  \/ a \div v.d > tenths
         \/ a \div v.d = tenths /\ a % v.d > 0

\* value >= k for an integer k; false for NaN
AtLeast(v, k) == ~v.nan /\ v.n >= k * v.d

\* value >= t, t in tenths
ReachesOrExceeds(v, tenths) == ~v.nan /\ (10 * v.n) \div v.d >= tenths

\* a variant that also counts a breakpoint the value equals: filter(t => value >= t)
CountExceeded_OrEqual(thresholds, v) ==
  Cardinality({i \in 1..Len(thresholds) : ReachesOrExceeds(v, thresholds[i])})

\* thresholds.filter(t => value > t).length
CountExceeded(thresholds, v) ==
  Cardinality({i \in 1..Len(thresholds) : Exceeds(v, thresholds[i])})

-----------------------------------------------------------------------------
(* src/unnamed/part_000: the engine.                                       *)

\* a variant whose percentage case trusts the number whatever the unit is
ConvertUnit_LenientPercentage(value, unit, type) ==
  CASE type = "energy" ->
         IF unit = <<"k", "j">> THEN DivBy4184Thousandths(value) ELSE value
    [] type = "sodium" ->
         IF unit = <<"g">> THEN MulBy(value, 1000) ELSE value
    [] type = "mass" ->
         IF unit = <<"m", "g">> THEN DivBy(value, 1000)
         ELSE IF unit = <<"m", "c", "g">> THEN DivBy(value, 1000000)
         ELSE value
    [] OTHER -> value

\* the switch on nutrientType: the unit conversion of a parsed value
ConvertUnit(value, unit, type) ==
  CASE type = "energy" ->
         IF unit = <<"k", "j">> THEN DivBy4184Thousandths(value) ELSE value
    [] type = "sodium" ->
         IF unit = <<"g">> THEN MulBy(value, 1000) ELSE value
    [] type = "mass" ->
         IF unit = <<"m", "g">> THEN DivBy(value, 1000)
         ELSE IF unit = <<"m", "c", "g">> THEN DivBy(value, 1000000)
         ELSE value
    [] type = "percentage" ->
         IF unit = <<"%">> THEN value ELSE Frac(0, 1)
    [] OTHER -> value

\* from the match result on: 0 for no match, else the converted value
Normalise(matches, type) ==
  IF ~matches.found THEN Frac(0, 1)
  ELSE ConvertUnit(parseFloat(matches.num), toLowerCase(matches.unit), type)

parseNutritionValue(raw, type) ==
  IF ~Truthy(raw) THEN Frac(0, 1)
  ELSE Normalise(match(trim(toString(raw))), type)

\* the four normalised quantities of calculateNegativePoints
NegativeInputs(nutrition) ==
  [energy       |-> parseNutritionValue(Or(nutrition.energy, Str(<<"0">>)), "energy"),
   sugars       |-> parseNutritionValue(
                      Or(nutrition.TotalSugars, Or(nutrition.sugars, Str(<<"0">>))),
                      "mass"),
   saturatedFat |-> parseNutritionValue(Or(nutrition.saturatedFat, Str(<<"0">>)), "mass"),
   sodium       |-> parseNutritionValue(Or(nutrition.sodium, Str(<<"0">>)), "sodium")]

\* the threshold tables, in tenths; isBeverage is the 0/1 flag
NegativeThresholds(isBeverage) ==
  IF isBeverage # 0
  THEN [energy |-> <<72, 143, 215, 285, 359, 430, 502, 574, 645>>,
        sugars |-> <<0, 15, 30, 45, 60, 75, 90, 105, 120, 135>>,
        satFat |-> <<0, 1, 2, 3, 4, 5, 6, 7, 8, 9, 10>>,
        sodium |-> <<0, 450, 900, 1350, 1800, 2250, 2700, 3150, 3600, 4050>>]
  ELSE [energy |-> <<800, 1600, 2400, 3200, 4000, 4800, 5600, 6400, 7200, 8000>>,
        sugars |-> <<45, 90, 135, 180, 225, 270, 310, 360, 400, 450>>,
        satFat |-> <<10, 20, 30, 40, 50, 60, 70, 80, 90, 100>>,
        sodium |-> <<900, 1800, 2700, 3600, 4500, 5400, 6300, 7200, 8100, 9000>>]

\* energyPoints + sugarsPoints + satFatPoints + sodiumPoints
NegativePointsOf(in, th) ==
  CountExceeded(th.energy, in.energy) + CountExceeded(th.sugars, in.sugars)
    + CountExceeded(th.satFat, in.saturatedFat) + CountExceeded(th.sodium, in.sodium)

calculateNegativePoints(nutrition, isBeverage) ==
  NegativePointsOf(NegativeInputs(nutrition), NegativeThresholds(isBeverage))

\* the three normalised quantities of calculatePositivePoints
PositiveInputs(nutrition) ==
  [fvln    |-> parseNutritionValue(Or(nutrition.fruitsVegetablesNuts, Str(<<"0">>)),
                                   "percentage"),
   fiber   |-> parseNutritionValue(
                 Or(nutrition.dietaryfiber, Or(nutrition.fiber, Str(<<"0">>))), "mass"),
   protein |-> parseNutritionValue(Or(nutrition.protein, Str(<<"0">>)), "mass")]

\* a variant with three independent ifs that add up, as the energy and sugar
\* ladders of src/functions/index.js do
FvlnPoints_Accumulating(fvln) ==
  (IF AtLeast(fvln, 80) THEN 5 ELSE 0) + (IF AtLeast(fvln, 60) THEN 2 ELSE 0)
    + (IF AtLeast(fvln, 40) THEN 1 ELSE 0)

FvlnPoints(fvln) ==
  IF AtLeast(fvln, 80) THEN 5
  ELSE IF AtLeast(fvln, 60) THEN 2
  ELSE IF AtLeast(fvln, 40) THEN 1
  ELSE 0

fiberThresholds   == <<7, 14, 21, 28, 35>>
proteinThresholds == <<16, 32, 48, 64, 80>>

\* the record calculatePositivePoints returns
PositivePoints(fvlnPoints, fiberPoints, proteinPoints) ==
  [fvln    |-> fvlnPoints,
   fiber   |-> fiberPoints,
   protein |-> proteinPoints,
   total   |-> fvlnPoints + fiberPoints + proteinPoints]

PositivePointsOf(in) ==
  PositivePoints(FvlnPoints(in.fvln),
                 CountExceeded(fiberThresholds, in.fiber),
                 CountExceeded(proteinThresholds, in.protein))

calculatePositivePoints(nutrition, isBeverage) == PositivePointsOf(PositiveInputs(nutrition))

minScore == -15
maxScore == 40

\* a variant without the cap rule: nutriScore = negativePoints - positivePoints
FsaScore_NoCap(N, P) == N - P.total

\* the FSA score of calculateHealthScore from N and P
FsaScore(N, P) ==
  IF N < 11 THEN N - P.total
  ELSE IF P.fvln = 5 THEN N - P.total
  ELSE N - (P.fvln + P.fiber)

\* Math.round(100 - Math.min(100, Math.max(0, normalized))) with
\* normalized = (fsaScore - minScore) / (maxScore - minScore) * 100, kept as the
\* fraction num/den; Math.round(x) is floor(x + 1/2)
HealthScoreOf(fsaScore) ==
  LET den     == maxScore - minScore
      num     == (fsaScore - minScore) * 100
      clamped == IF num < 0 THEN 0 ELSE IF num > 100 * den THEN 100 * den ELSE num
  IN  (2 * (100 * den - clamped) + den) \div (2 * den)

\* the object calculateHealthScore returns
Result(N, P, fsaScore) ==
  [healthScore        |-> HealthScoreOf(fsaScore),
   calculationDetails |-> [negativePoints |-> N,
                           positivePoints |-> P.total,
                           fsaScore       |-> fsaScore]]

Aggregate(N, P) == Result(N, P, FsaScore(N, P))

calculateHealthScore(nutrition, isBeverage) ==
  Aggregate(calculateNegativePoints(nutrition, isBeverage),
            calculatePositivePoints(nutrition, isBeverage))

-----------------------------------------------------------------------------
(* Inputs.                                                                 *)

\* all texts of at most k characters over the alphabet A
TextsUpTo(A, k) == UNION {[1..m -> A] : m \in 0..k}

NutrientTypes == {"energy", "sodium", "mass", "percentage"}

MaxLen == 4
ParseAlphabet == {"5", ".", "m", "c", "g", "µ", "%", " "}

\* the literal values the documentation of the normaliser uses
DocumentedTexts ==
  {<<"1", "0", "0", "0", "m", "g">>, <<"1", "g">>, <<"5", "0", "0", "m", "c", "g">>,
   <<"5", "0", "0", "µ", "g">>, <<"4", ".", "1", "8", "4", "k", "j">>,
   <<"4", ".", "1", "8", "4", "K", "J">>, <<"1", "0", "0", " ", "m", "g">>,
   <<"8", "0", "%">>, <<"8", "0">>}

ParseInputs ==
  {Undefined, Number(0), Number(5), Number(-5), Bool(TRUE)}
    \cup {Str(s) : s \in TextsUpTo(ParseAlphabet, MaxLen) \cup DocumentedTexts}

NoFields == [present |-> FALSE, saturatedFat |-> Undefined]
Fields(sf) == [present |-> TRUE, saturatedFat |-> sf]

EmptyRecord ==
  [energy |-> Undefined, TotalSugars |-> Undefined, sugars |-> Undefined,
   saturatedFat |-> Undefined, customNutritionFields |-> NoFields,
   sodium |-> Undefined, dietaryfiber |-> Undefined, fiber |-> Undefined,
   protein |-> Undefined, fruitsVegetablesNuts |-> Undefined]

\* records that vary the four penalised nutrients and their aliases
NegativeRecords ==
  {[EmptyRecord EXCEPT !.energy = e, !.TotalSugars = ts, !.sugars = s,
                       !.saturatedFat = sf, !.customNutritionFields = cf, !.sodium = na] :
     e  \in {Undefined, Number(80), Str(<<"8", "1">>), Str(<<"9", "0", "0">>),
             Str(<<"1", "0", "0", "k", "j">>)},
     ts \in {Undefined, Str(<<"3", "1", ".", "2", "g">>)},
     s  \in {Undefined, Str(<<"4", ".", "5">>), Str(<<"9", "1", "0", "0", "m", "g">>),
             Str(<<"4", "0", ".", "2">>), Str(<<"5", "0", "g">>)},
     sf \in {Undefined, Str(<<"5", "g">>), Str(<<"1", "1">>)},
     cf \in {NoFields, Fields(Str(<<"5", "g">>))},
     na \in {Undefined, Str(<<"9", "0">>), Str(<<"0", ".", "5", "g">>), Str(<<"1", "g">>)}}

\* three loads of negative points: none, light, heavy
Loads ==
  {EmptyRecord,
   [EmptyRecord EXCEPT !.energy = Str(<<"8", "1">>), !.saturatedFat = Str(<<"0", ".", "0", "5">>)],
   [EmptyRecord EXCEPT !.energy = Str(<<"9", "0", "0">>), !.sugars = Str(<<"5", "0", "g">>),
                       !.saturatedFat = Str(<<"1", "1">>), !.sodium = Str(<<"1", "g">>)]}

MaxPctLen == 3
PctAlphabet == {"0", "4", "6", "8", "%", "g", " "}

\* records that vary the produce percentage over every short text
PercentageRecords ==
  {[load EXCEPT !.fruitsVegetablesNuts = Str(fv), !.protein = p] :
     load \in Loads,
     fv   \in TextsUpTo(PctAlphabet, MaxPctLen),
     p    \in {Undefined, Str(<<"5", "g">>)}}

\* records that vary the three rewarded nutrients and their aliases
PositiveRecords ==
  {[load EXCEPT !.fruitsVegetablesNuts = fv, !.dietaryfiber = df, !.fiber = f,
                !.protein = p] :
     load \in Loads,
     fv   \in {Undefined, Number(80), Str(<<"8", "0", "%">>), Str(<<"6", "0", "%">>),
               Str(<<"3", "9", ".", "9", "%">>), Str(<<".", "%">>)},
     df   \in {Undefined, Str(<<"3", "g">>), Str(<<"3", ".", "6">>)},
     f    \in {Undefined, Str(<<"8", "0", "0", "m", "g">>)},
     p    \in {Undefined, Str(<<"1", ".", "6">>), Str(<<"5", "g">>), Str(<<"9">>)}}

Records == NegativeRecords \cup PercentageRecords \cup PositiveRecords

\* isBeverage values of a request body
Flags ==
  {Undefined, Bool(TRUE), Bool(FALSE), Number(0), Number(1), Str(<<>>),
   Str(<<"t", "r", "u", "e">>), Str(<<"f", "a", "l", "s", "e">>),
   Str(<<"f", "o", "o", "d">>), Str(<<"n", "o">>)}

Methods == {"POST", "GET", "OPTIONS"}

Request(method, hasNutrition, nutrition, isBeverage) ==
  [method |-> method,
   body   |-> [hasNutrition |-> hasNutrition, nutrition |-> nutrition,
               isBeverage |-> isBeverage]]

Requests ==
  {Request("POST", TRUE, r, f) : r \in Records, f \in {Undefined, Bool(TRUE)}}
    \cup {Request(m, h, r, f) : m \in Methods, h \in BOOLEAN, r \in Loads, f \in Flags}

NoLocals ==
  [isBeverageFlag |-> 0, N |-> 0,
   P |-> [fvln |-> 0, fiber |-> 0, protein |-> 0, total |-> 0],
   negative |-> [energy |-> Frac(0, 1), sugars |-> Frac(0, 1),
                 saturatedFat |-> Frac(0, 1), sodium |-> Frac(0, 1)],
   positive |-> [fvln |-> Frac(0, 1), fiber |-> Frac(0, 1), protein |-> Frac(0, 1)]]

NoBody ==
  [healthScore        |-> 0,
   calculationDetails |-> [negativePoints |-> 0, positivePoints |-> 0, fsaScore |-> 0]]

NoResponse == [status |-> 0, body |-> NoBody]

ProductIds == {"p1", "ghost"}
NumRequests == 2
CallIds == 1..NumRequests

\* an absent document, as productRef.get() reports it
NoDocument ==
  [exists |-> FALSE, hasNutritionInfo |-> FALSE, nutritionInfo |-> EmptyRecord,
   fields |-> {}, healthScore |-> 0, updatedAt |-> 0, calculationDetails |-> NoBody.calculationDetails]

NewDocument(hasNutritionInfo, nutritionInfo) ==
  [NoDocument EXCEPT !.exists = TRUE, !.hasNutritionInfo = hasNutritionInfo,
                     !.nutritionInfo = nutritionInfo]

StoredRecords ==
  {[EmptyRecord EXCEPT !.energy = Str(<<"9", "0", "0">>), !.sugars = Str(<<"5", "0", "g">>),
                       !.customNutritionFields = Fields(Str(<<"5", "0", "g">>)),
                       !.sodium = Str(<<"1", "g">>), !.protein = p,
                       !.fruitsVegetablesNuts = fv] :
     p  \in {Undefined, Str(<<"5", "g">>)},
     fv \in {Undefined, Str(<<"8", "0", "%">>)}}
  \cup {[EmptyRecord EXCEPT !.fiber = Str(<<"3", "g">>)]}

NoCall == [pc |-> "idle", method |-> "POST", productId |-> "", snapshot |-> NoDocument,
           status |-> 0, healthScore |-> 0]

NoCalls     == [r \in CallIds |-> NoCall]

-----------------------------------------------------------------------------
(* The parser on its own: one call of parseNutritionValue.                 *)

InitParse ==
  /\ rawValue \in ParseInputs
  /\ nutrientType \in NutrientTypes
  /\ parsed = Frac(0, 1)
  /\ parsePc = "call"
  /\ req = <<>> /\ locals = <<>> /\ resp = <<>> /\ enginePc = "off"
  /\ doc = <<>> /\ clock = 0 /\ calls = <<>>

Parse ==
  /\ parsePc = "call"
  /\ parsed' = parseNutritionValue(rawValue, nutrientType)
  /\ parsePc' = "returned"
  /\ UNCHANGED <<rawValue, nutrientType>>

-----------------------------------------------------------------------------
(* src/unnamed/part_000: exports.calculateHealthScore, one request.        *)

InitEngine ==
  /\ req \in Requests
  /\ locals = NoLocals
  /\ resp = NoResponse
  /\ enginePc = "received"
  /\ rawValue = <<>> /\ nutrientType = "" /\ parsed = <<>> /\ parsePc = "off"
  /\ doc = <<>> /\ clock = 0 /\ calls = <<>>

\* OPTIONS: the CORS preflight answer
Preflight ==
  /\ enginePc = "received"
  /\ req.method = "OPTIONS"
  /\ resp' = [status |-> 204, body |-> NoBody]
  /\ enginePc' = "responded"
  /\ UNCHANGED <<req, locals>>

RejectMethod ==
  /\ enginePc = "received"
  /\ req.method # "OPTIONS"
  /\ req.method # "POST"
  /\ resp' = [status |-> 400, body |-> NoBody]
  /\ enginePc' = "responded"
  /\ UNCHANGED <<req, locals>>

RejectBody ==
  /\ enginePc = "received"
  /\ req.method = "POST"
  /\ ~req.body.hasNutrition
  /\ resp' = [status |-> 400, body |-> NoBody]
  /\ enginePc' = "responded"
  /\ UNCHANGED <<req, locals>>

\* const isBeverageFlag = isBeverage ? 1 : 0
IsBeverageFlag(isBeverage) == IF Truthy(isBeverage) THEN 1 ELSE 0

Score ==
  /\ enginePc = "received"
  /\ req.method = "POST"
  /\ req.body.hasNutrition
  /\ LET nutrition      == req.body.nutrition
         isBeverageFlag == IsBeverageFlag(req.body.isBeverage)
     IN  /\ locals' = [isBeverageFlag |-> isBeverageFlag,
                       N        |-> calculateNegativePoints(nutrition, isBeverageFlag),
                       P        |-> calculatePositivePoints(nutrition, isBeverageFlag),
                       negative |-> NegativeInputs(nutrition),
                       positive |-> PositiveInputs(nutrition)]
         /\ resp' = [status |-> 200,
                     body   |-> calculateHealthScore(nutrition, isBeverageFlag)]
  /\ enginePc' = "responded"
  /\ UNCHANGED req

-----------------------------------------------------------------------------
(* src/unnamed/part_001: the persisting variant.                           *)

ConvertUnit1(value, unit, type) ==
  CASE type = "energy" ->
         IF unit = <<"k", "j">> THEN DivBy4184Thousandths(value) ELSE value
    [] type = "sodium" ->
         IF unit = <<"g">> THEN MulBy(value, 1000) ELSE value
    [] type = "mass" ->
         IF unit = <<"m", "g">> THEN DivBy(value, 1000) ELSE value
    [] type = "percentage" ->
         IF unit = <<"%">> THEN value ELSE Frac(0, 1)
    [] OTHER -> value

Normalise1(matches, type) ==
  IF ~matches.found THEN Frac(0, 1)
  ELSE ConvertUnit1(parseFloat(matches.num), toLowerCase(matches.unit), type)

parseNutritionValue1(raw, type) ==
  IF ~Truthy(raw) THEN Frac(0, 1)
  ELSE Normalise1(match(trim(toString(raw))), type)

\* nutrition.customNutritionFields?.saturatedFat
NestedSaturatedFat(nutrition) ==
  IF nutrition.customNutritionFields.present
  THEN nutrition.customNutritionFields.saturatedFat
  ELSE Undefined

calculateNegativePoints1(nutrition) ==
  LET sugarsValue  == Or(nutrition.TotalSugars, Or(nutrition.sugars, Str(<<"0">>)))
      energy       == parseNutritionValue1(Or(nutrition.energy, Str(<<"0">>)), "energy")
      sugars       == parseNutritionValue1(sugarsValue, "mass")
      saturatedFat == parseNutritionValue1(
                        Or(NestedSaturatedFat(nutrition), Str(<<"0">>)), "mass")
      sodium       == parseNutritionValue1(Or(nutrition.sodium, Str(<<"0">>)), "sodium")
      energyThresholds == <<800, 1600, 2400, 3200, 4000, 4800, 5600, 6400, 7200, 8000>>
      sugarsThresholds == <<72, 143, 215, 285, 359, 430, 502, 574, 645>>
      satFatThresholds == <<45, 90, 135, 180, 225, 270, 310, 360, 400, 450>>
      sodiumThresholds == <<900, 1800, 2700, 3600, 4500, 5400, 6300, 7200, 8100, 9000>>
  IN  CountExceeded(energyThresholds, energy) + CountExceeded(sugarsThresholds, sugars)
        + CountExceeded(satFatThresholds, saturatedFat)
        + CountExceeded(sodiumThresholds, sodium)

FvlnPoints1(fvln) ==
  IF AtLeast(fvln, 80) THEN 5
  ELSE IF AtLeast(fvln, 60) THEN 2
  ELSE IF AtLeast(fvln, 40) THEN 1
  ELSE 0

calculatePositivePoints1(nutrition) ==
  LET fiberValue == Or(nutrition.dietaryfiber, Or(nutrition.fiber, Str(<<"0">>)))
      fvln       == parseNutritionValue1(
                      Or(nutrition.fruitsVegetablesNuts, Str(<<"0">>)), "percentage")
      fiber      == parseNutritionValue1(fiberValue, "mass")
      protein    == parseNutritionValue1(Or(nutrition.protein, Str(<<"0">>)), "mass")
  IN  PositivePoints(FvlnPoints1(fvln),
                     CountExceeded(<<7, 14, 21, 28, 35>>, fiber),
                     CountExceeded(<<16, 32, 48, 64, 80>>, protein))

\* Math.round(100 - Math.min(100, Math.max(0, normalized))) as in HealthScoreOf
HealthScoreOf1(fsaScore) ==
  LET den     == 40 - (-15)
      num     == (fsaScore - (-15)) * 100
      clamped == IF num < 0 THEN 0 ELSE IF num > 100 * den THEN 100 * den ELSE num
  IN  (2 * (100 * den - clamped) + den) \div (2 * den)

FsaScore1(N, P) ==
  IF N < 11 THEN N - P.total
  ELSE IF P.fvln = 5 THEN N - P.total
  ELSE N - (P.fvln + P.fiber)

\* the healthScore and calculationDetails written from N, P and fsaScore
Written(N, P, fsaScore) ==
  [healthScore        |-> HealthScoreOf1(fsaScore),
   calculationDetails |-> [negativePoints |-> N,
                           positivePoints |-> P.total,
                           fsaScore       |-> fsaScore]]

ScoreFrom(N, P) == Written(N, P, FsaScore1(N, P))

\* what calculateHealthScore(productId) computes from the nutrition it has read
ScoreOfNutrition(nutrition) ==
  ScoreFrom(calculateNegativePoints1(nutrition), calculatePositivePoints1(nutrition))

\* a variant that replaces the document, productRef.set({...}), and so drops
\* every field it does not name
UpdatedDocument_Set(old, score, now) ==
  [old EXCEPT !.hasNutritionInfo = FALSE,
              !.nutritionInfo = EmptyRecord,
              !.fields = {"healthScore", "updatedAt", "calculationDetails"},
              !.healthScore = score.healthScore,
              !.updatedAt = now,
              !.calculationDetails = score.calculationDetails]

\* productRef.update({healthScore, updatedAt, calculationDetails})
UpdatedDocument(old, score, now) ==
  [old EXCEPT !.fields = old.fields \cup {"healthScore", "updatedAt", "calculationDetails"},
              !.healthScore = score.healthScore,
              !.updatedAt = now,
              !.calculationDetails = score.calculationDetails]

InitStore ==
  /\ \E r \in StoredRecords, h \in BOOLEAN :
       doc = [p \in ProductIds |->
                IF p = "p1" THEN NewDocument(h, IF h THEN r ELSE EmptyRecord)
                ELSE NoDocument]
  /\ clock = 1
  /\ calls = NoCalls
  /\ rawValue = <<>> /\ nutrientType = "" /\ parsed = <<>> /\ parsePc = "off"
  /\ req = <<>> /\ locals = <<>> /\ resp = <<>> /\ enginePc = "off"

\* a request reaches the function
Arrive(r) ==
  /\ calls[r].pc = "idle"
  /\ \E m \in Methods, p \in ProductIds \cup {""} :
       calls' = [calls EXCEPT ![r] = [@ EXCEPT !.pc = "received", !.method = m,
                                                !.productId = p]]
  /\ UNCHANGED <<doc, clock>>

Answer(r, status) ==
  calls' = [calls EXCEPT ![r] = [@ EXCEPT !.pc = "done", !.status = status]]

PreflightStore(r) ==
  /\ calls[r].pc = "received"
  /\ calls[r].method = "OPTIONS"
  /\ Answer(r, 204)
  /\ UNCHANGED <<doc, clock>>

RejectMethodStore(r) ==
  /\ calls[r].pc = "received"
  /\ calls[r].method \notin {"OPTIONS", "POST"}
  /\ Answer(r, 400)
  /\ UNCHANGED <<doc, clock>>

RejectProductId(r) ==
  /\ calls[r].pc = "received"
  /\ calls[r].method = "POST"
  /\ calls[r].productId = ""
  /\ Answer(r, 400)
  /\ UNCHANGED <<doc, clock>>

\* const productDoc = await productRef.get()
Get(r) ==
  /\ calls[r].pc = "received"
  /\ calls[r].method = "POST"
  /\ calls[r].productId # ""
  /\ calls' = [calls EXCEPT ![r] = [@ EXCEPT !.pc = "read",
                                             !.snapshot = doc[calls[r].productId]]]
  /\ UNCHANGED <<doc, clock>>

\* throw new Error('Product not found'), caught by the handler's catch
NotFound(r) ==
  /\ calls[r].pc = "read"
  /\ ~calls[r].snapshot.exists
  /\ Answer(r, 500)
  /\ UNCHANGED <<doc, clock>>

\* the score of the snapshot read, then await productRef.update(...)
Update(r) ==
  /\ calls[r].pc = "read"
  /\ calls[r].snapshot.exists
  /\ LET data      == calls[r].snapshot
         nutrition == IF data.hasNutritionInfo THEN data.nutritionInfo ELSE EmptyRecord
         score     == ScoreOfNutrition(nutrition)
         id        == calls[r].productId
     IN  /\ doc' = [doc EXCEPT ![id] = UpdatedDocument(@, score, clock)]
         /\ calls' = [calls EXCEPT ![r] = [@ EXCEPT !.pc = "updated",
                                                    !.healthScore = score.healthScore]]
  /\ clock' = clock + 1

\* res.json({productId, healthScore: score})
Respond(r) ==
  /\ calls[r].pc = "updated"
  /\ Answer(r, 200)
  /\ UNCHANGED <<doc, clock>>

-----------------------------------------------------------------------------
(* Specifications.                                                         *)

NextParse == Parse /\ UNCHANGED <<engineVars, storeVars>>

NextEngine ==
  \/ Preflight /\ UNCHANGED <<parseVars, storeVars>>
  \/ RejectMethod /\ UNCHANGED <<parseVars, storeVars>>
  \/ RejectBody /\ UNCHANGED <<parseVars, storeVars>>
  \/ Score /\ UNCHANGED <<parseVars, storeVars>>

NextStore ==
  \E r \in CallIds :
    \/ Arrive(r) /\ UNCHANGED <<parseVars, engineVars>>
    \/ PreflightStore(r) /\ UNCHANGED <<parseVars, engineVars>>
    \/ RejectMethodStore(r) /\ UNCHANGED <<parseVars, engineVars>>
    \/ RejectProductId(r) /\ UNCHANGED <<parseVars, engineVars>>
    \/ Get(r) /\ UNCHANGED <<parseVars, engineVars>>
    \/ NotFound(r) /\ UNCHANGED <<parseVars, engineVars>>
    \/ Update(r) /\ UNCHANGED <<parseVars, engineVars>>
    \/ Respond(r) /\ UNCHANGED <<parseVars, engineVars>>

\* one call of parseNutritionValue on every bounded input
SpecParse == InitParse /\ [][NextParse]_vars

\* one request to the engine's HTTP function
Spec == InitEngine /\ [][NextEngine]_vars

\* concurrent requests to the persisting HTTP function
SpecStore == InitStore /\ [][NextStore]_vars

-----------------------------------------------------------------------------
(* Properties.                                                             *)

RECURSIVE Gcd(_, _)
Gcd(a, b) == IF b = 0 THEN a ELSE Gcd(b, a % b)

\* a and b are the same number (neither is NaN)
SameNumber(a, b) ==
  /\ ~a.nan
  /\ ~b.nan
  /\ a.n \div Gcd(a.n, a.d) = b.n \div Gcd(b.n, b.d)
  /\ a.d \div Gcd(a.n, a.d) = b.d \div Gcd(b.n, b.d)

\* v > t and v >= t for t in tenths, by cross-multiplication
Above(v, tenths)   == ~v.nan /\ 10 * v.n > tenths * v.d
AtOrAbove(v, tenths) == ~v.nan /\ 10 * v.n >= tenths * v.d

Scored == enginePc = "responded" /\ resp.status = 200

\* C1: every scored request, food or beverage, has 0 <= healthScore <= 100,
\* 0 <= negativePoints <= 40 and 0 <= positivePoints <= 15.
C1_Ranges ==
  Scored =>
    /\ resp.body.healthScore \in 0..100
    /\ resp.body.calculationDetails.negativePoints \in 0..40
    /\ resp.body.calculationDetails.positivePoints \in 0..15

\* a beverage request whose tallies are both at their maxima
C1_Witness ==
  /\ Scored
  /\ locals.isBeverageFlag = 1
  /\ resp.body.calculationDetails.negativePoints = 40
  /\ resp.body.calculationDetails.positivePoints = 15

\* the integer nearest to 100 - (raw + 15) / 55 * 100, kept within 0..100
Rescaled(raw) ==
  LET x55 == 100 * 55 - (raw + 15) * 100
      c55 == IF x55 < 0 THEN 0 ELSE IF x55 > 5500 THEN 5500 ELSE x55
  IN  CHOOSE h \in 0..100 : 2 * (h * 55 - c55) <= 55 /\ 2 * (c55 - h * 55) < 55

\* C2: the raw score is N - (fvln + fiber + protein) when N < 11, and also when
\* N >= 11 and fvln = 5; it is N - (fvln + fiber) when N >= 11 and fvln < 5, where
\* the protein points change neither the raw score nor the healthScore.
C2_CapRule ==
  Scored =>
    LET N   == locals.N
        P   == locals.P
        raw == resp.body.calculationDetails.fsaScore
    IN  /\ resp.body.calculationDetails.negativePoints = N
        /\ N < 11 => raw = N - (P.fvln + P.fiber + P.protein)
        /\ N >= 11 /\ P.fvln = 5 => raw = N - (P.fvln + P.fiber + P.protein)
        /\ N >= 11 /\ P.fvln < 5 =>
             /\ raw = N - (P.fvln + P.fiber)
             /\ resp.body.healthScore = Rescaled(N - (P.fvln + P.fiber))

\* a heavily penalised record without full produce points that has protein points
C2_Witness ==
  /\ Scored
  /\ locals.N >= 11
  /\ locals.P.fvln < 5
  /\ locals.P.protein > 0
  /\ locals.P.fiber > 0

\* the number of the breakpoints step, 2*step, ..., 10*step (tenths) that v exceeds
RegularCount(v, step) == Cardinality({k \in 1..10 : Above(v, k * step)})

\* the number of the breakpoints in the set (tenths) that v exceeds
SetCount(v, breakpoints) == Cardinality({b \in breakpoints : Above(v, b)})

\* C3 as stated: for food, negativePoints is the sum of the breakpoints strictly
\* exceeded on the regular ladders energy 80..800 step 80, sugars 4.5..45 step 4.5,
\* saturated fat 1..10 step 1, sodium 90..900 step 90.
C3_RegularLadders ==
  Scored /\ locals.isBeverageFlag = 0 =>
    locals.N = RegularCount(locals.negative.energy, 800)
                 + RegularCount(locals.negative.sugars, 45)
                 + RegularCount(locals.negative.saturatedFat, 10)
                 + RegularCount(locals.negative.sodium, 900)

\* C3 as amended: the same with the sugars ladder 4.5, 9, 13.5, 18, 22.5, 27, 31,
\* 36, 40, 45 (the seventh and ninth breakpoints are 31 and 40); a value equal to
\* a breakpoint does not earn its point.
C3_FoodLadders ==
  Scored /\ locals.isBeverageFlag = 0 =>
    locals.N = RegularCount(locals.negative.energy, 800)
                 + SetCount(locals.negative.sugars,
                            {45, 90, 135, 180, 225, 270, 310, 360, 400, 450})
                 + RegularCount(locals.negative.saturatedFat, 10)
                 + RegularCount(locals.negative.sodium, 900)

\* a food record with sugars between 31 and 31.5 g and energy on a breakpoint
C3_Witness ==
  /\ Scored
  /\ locals.isBeverageFlag = 0
  /\ Above(locals.negative.sugars, 310)
  /\ ~Above(locals.negative.sugars, 315)
  /\ SameNumber(locals.negative.energy, Frac(80, 1))
  /\ locals.N = 7

\* C4: the saturated-fat quantity comes from customNutritionFields.saturatedFat
\* when that is present, otherwise from the top-level saturatedFat field.
C4_SaturatedFatResolution ==
  Scored =>
    LET nutrition == req.body.nutrition
        nested    == NestedSaturatedFat(nutrition)
        resolved  == IF Truthy(nested) THEN nested ELSE nutrition.saturatedFat
    IN  SameNumber(locals.negative.saturatedFat,
                   parseNutritionValue(Or(resolved, Str(<<"0">>)), "mass"))

IsDigits(s) == s # <<>> /\ \A i \in 1..Len(s) : s[i] \in DigitChars

\* C5: for a mass field, a number n followed by mg is n/1000, by mcg or µg is
\* n/1,000,000, and by any other unit or none is n.
C5_MassUnits ==
  parsePc = "returned" /\ nutrientType = "mass" /\ rawValue.t = "string" =>
    LET s == rawValue.s
        k == RunLen(s, 1, DigitChars)
        u == SubSeq(s, k + 1, Len(s))
        n == DigitsValue(SubSeq(s, 1, k))
    IN  /\ k >= 1 /\ u = <<"m", "g">> => SameNumber(parsed, Frac(n, 1000))
        /\ k >= 1 /\ u \in {<<"m", "c", "g">>, <<"µ", "g">>} =>
             SameNumber(parsed, Frac(n, 1000000))
        /\ k >= 1 /\ u \in {<<>>, <<"g">>, <<"c">>, <<"m">>, <<"c", "g">>, <<"%">>} =>
             SameNumber(parsed, Frac(n, 1))

\* C6: parseNutritionValue always returns a number, never NaN, and returns 0 for
\* a text that holds no digit.
C6_NeverNaN ==
  parsePc = "returned" =>
    /\ ~parsed.nan
    /\ (rawValue.t = "string" /\ \A i \in 1..Len(rawValue.s) : rawValue.s[i] \notin DigitChars)
         => SameNumber(parsed, Frac(0, 1))

\* the FVLN points of a percentage, by band
Band(v) ==
  IF AtOrAbove(v, 800) THEN 5
  ELSE IF AtOrAbove(v, 600) THEN 2
  ELSE IF AtOrAbove(v, 400) THEN 1
  ELSE 0

\* the text holds a number directly followed by a unit that is exactly %
HasPercentUnit(s) ==
  \E i \in 2..Len(s) :
    /\ s[i] = "%"
    /\ s[i - 1] \in NumberClass
    /\ i = Len(s) \/ s[i + 1] \notin UnitClass

PercentText(digits) == Str(digits \o <<"%">>)

\* C7: the produce percentage is the number only when its unit is exactly %, and
\* 0 for any other or missing unit; "80" earns 0 FVLN points, "80%" 5, "60%" 2,
\* "40%" 1 and anything below 40% earns 0.
C7_PercentageStrictness ==
  Scored =>
    LET raw == req.body.nutrition.fruitsVegetablesNuts
        v   == locals.positive.fvln
        pts == locals.P.fvln
    IN  /\ raw.t # "string" \/ ~HasPercentUnit(raw.s) => SameNumber(v, Frac(0, 1)) /\ pts = 0
        /\ raw.t = "string" /\ Len(raw.s) >= 2 /\ raw.s[Len(raw.s)] = "%"
             /\ IsDigits(SubSeq(raw.s, 1, Len(raw.s) - 1)) =>
             /\ SameNumber(v, Frac(DigitsValue(SubSeq(raw.s, 1, Len(raw.s) - 1)), 1))
             /\ pts = Band(v)
        /\ raw = Str(<<"8", "0">>) => pts = 0
        /\ raw = Number(80) => pts = 0
        /\ raw = PercentText(<<"8", "0">>) => pts = 5
        /\ raw = PercentText(<<"6", "0">>) => pts = 2
        /\ raw = PercentText(<<"4", "0">>) => pts = 1
        /\ raw \in {PercentText(<<"8">>), PercentText(<<"0">>), PercentText(<<"0", "8">>)}
             => pts = 0

\* "80%" has been scored and earned the five points
C7_Witness ==
  /\ Scored
  /\ req.body.nutrition.fruitsVegetablesNuts = PercentText(<<"8", "0">>)
  /\ locals.P.fvln = 5

\* C9: an isBeverage value that is absent or is no beverage indication ("food",
\* "false", "no") is scored as food.
C9_UnrecognisedIsFood ==
  Scored /\ req.body.isBeverage \in
              {Undefined, Bool(FALSE), Number(0), Str(<<>>), Str(<<"f", "o", "o", "d">>),
               Str(<<"f", "a", "l", "s", "e">>), Str(<<"n", "o">>)} =>
    /\ locals.isBeverageFlag = 0
    /\ locals.N = NegativePointsOf(locals.negative, NegativeThresholds(0))

Finished(r) == calls[r].pc = "done"

\* C8: a finished request has status 400 for a missing productId or a method
\* other than POST, 404 for a product that does not exist, and 500 for nothing
\* else than an unexpected failure.
C8_StatusMapping ==
  \A r \in CallIds :
    Finished(r) =>
      /\ calls[r].method \notin {"POST", "OPTIONS"} => calls[r].status = 400
      /\ calls[r].method = "POST" /\ calls[r].productId = "" => calls[r].status = 400
      /\ calls[r].method = "POST" /\ calls[r].productId # ""
           /\ ~doc[calls[r].productId].exists => calls[r].status = 404

\* the engine's result for the nutritionInfo a document holds
ExpectedScore(d) ==
  ScoreOfNutrition(IF d.hasNutritionInfo THEN d.nutritionInfo ELSE EmptyRecord)

ScoreFields == {"healthScore", "updatedAt", "calculationDetails"}

\* a step writes at most healthScore, updatedAt and calculationDetails
WritesOnlyScoreFields ==
  \A p \in ProductIds :
    /\ doc'[p].exists = doc[p].exists
    /\ doc'[p].hasNutritionInfo = doc[p].hasNutritionInfo
    /\ doc'[p].nutritionInfo = doc[p].nutritionInfo
    /\ doc'[p].fields \subseteq doc[p].fields \cup ScoreFields

\* every request has finished and the stored score of every product some request
\* scored is the engine's result for the nutritionInfo stored with it
SettledScores ==
  (\A r \in CallIds : Finished(r)) =>
    \A p \in ProductIds :
      (\E r \in CallIds : calls[r].productId = p /\ calls[r].status = 200) =>
        /\ ScoreFields \subseteq doc[p].fields
        /\ doc[p].healthScore = ExpectedScore(doc[p]).healthScore
        /\ doc[p].calculationDetails = ExpectedScore(doc[p]).calculationDetails
        /\ \A r \in CallIds :
             calls[r].productId = p /\ calls[r].status = 200 =>
               calls[r].healthScore = doc[p].healthScore

====
